---- MODULE Spec2Model ----
(***************************************************************************)
(* A model of location_history_json_converter.py: one run of main(), from  *)
(* the parsed command line to the value handed to sys.exit.                *)
(*                                                                         *)
(* Representation                                                          *)
(*   - an optional value (None or a value) is a sequence of length <= 1;   *)
(*   - a Python str of digits is the sequence of its digits;               *)
(*   - a path is the sequence of its '.'-separated parts, so that          *)
(*     "a.json" is <<"a", "json">> and the empty string is <<"">>;         *)
(*   - a float number of degrees is a fixed-point number of thousandths of *)
(*     a degree; trigonometric values and radians are fixed-point numbers  *)
(*     of ten-thousandths;                                                 *)
(*   - the text written to the output file is a sequence of tokens, one    *)
(*     per structural element, [tag, idx], idx the position of the record  *)
(*     in items (0 for an element that belongs to no record).              *)
(***************************************************************************)
EXTENDS Integers, Sequences, FiniteSets, TLC

VARIABLES
    pc,        \* position of the run inside main()
    args,      \* the argparse namespace
    env,       \* the file system and the clock the run meets
    data,      \* the decoded JSON document (None before json.loads)
    items,     \* the list of records being filtered, sorted and rendered
    polygon,   \* the ring handed to Polygon(ext) (None before it is built)
    f_in,      \* the handle of the input file
    f_out,     \* the handle of the output file
    out,       \* what has been written to the output file
    stdout,    \* the messages printed
    stderr,    \* what argparse and the interpreter report
    idx,       \* the position of the rendering loop in items
    lastloc,   \* the previous record of the gpxtracks loop (None at first)
    exitCode   \* the exit status of the process (None while main() runs)

vars == <<pc, args, env, data, items, polygon, f_in, f_out, out, stdout,
          stderr, idx, lastloc, exitCode>>

\* The longest list of records a run is given.
MaxLen == 3

None == <<>>

Some(x) == <<x>>

Abs(n) == IF n < 0 THEN -n ELSE n

Front(s) == SubSeq(s, 1, Len(s) - 1)

----------------------------------------------------------------------------
(* Python strings of digits.                                               *)

\* str(n) for n >= 0
RECURSIVE str(_)
str(n) == IF n < 10 THEN <<n>> ELSE Append(str(n \div 10), n % 10)

\* int(s) for a string of digits
RECURSIVE int(_)
int(s) == IF Len(s) = 0 THEN 0 ELSE 10 * int(Front(s)) + s[Len(s)]

\* a < b for two str: the first differing character decides, a proper prefix
\* is the smaller
RECURSIVE StrLess(_, _)
StrLess(a, b) ==
    IF Len(b) = 0 THEN FALSE
    ELSE IF Len(a) = 0 THEN TRUE
    ELSE IF a[1] # b[1] THEN a[1] < b[1]
    ELSE StrLess(Tail(a), Tail(b))

\* the sort key of line 112
key(item) == item.timestampMs

\* x placed behind every element of the sorted list s whose key is not greater
RECURSIVE Insert(_, _)
Insert(x, s) ==
    IF Len(s) = 0 THEN <<x>>
    ELSE IF StrLess(key(x), key(s[1])) THEN <<x>> \o s
    ELSE <<s[1]>> \o Insert(x, Tail(s))

\* sorted(items, key=lambda item: item["timestampMs"]): Python's sort is
\* stable, so its result is the one of inserting the elements left to right
RECURSIVE sorted(_)
sorted(s) == IF Len(s) = 0 THEN <<>> ELSE Insert(s[Len(s)], sorted(Front(s)))

----------------------------------------------------------------------------
(* Paths and the command line.                                             *)

\* '.'.join(parts)
join(parts) == IF Len(parts) = 0 THEN <<"">> ELSE parts

\* '.'.join(args.input.split('.')[:-1]) + '.' + args.format
DefaultOutput(input, format) == Append(join(Front(input)), format)

\* `not args.output`: None and the empty string are both false
NoOutput(output) == output = None \/ output = Some(<<"">>)

\* `args.polygon` as a condition: None and the empty list are both false
PolygonGiven(p) == ~p.isNone /\ Len(p.pts) > 0

\* the condition of line 83
TooFewPoints(p) == PolygonGiven(p) /\ Len(p.pts) < 2

----------------------------------------------------------------------------
(* Dates.  A datetime is the number of milliseconds since 1970-01-01 00:00 *)
(* local time.                                                             *)

\* datetime.fromtimestamp(int(timestampms) / 1000)
fromtimestamp(timestampms, utcoffset) == int(timestampms) + utcoffset

\* dateCheck with both bounds exclusive
dateCheck_exclusive(timestampms, startdate, enddate, utcoffset) ==
    LET dt == fromtimestamp(timestampms, utcoffset)
    IN  IF startdate # None /\ startdate[1] >= dt THEN FALSE
        ELSE IF enddate # None /\ enddate[1] <= dt THEN FALSE
        ELSE TRUE

dateCheck(timestampms, startdate, enddate, utcoffset) ==
    LET dt == fromtimestamp(timestampms, utcoffset)
    IN  IF startdate # None /\ startdate[1] > dt THEN FALSE
        ELSE IF enddate # None /\ enddate[1] < dt THEN FALSE
        ELSE TRUE

----------------------------------------------------------------------------
(* Degrees, the polygon and the point-in-polygon test.                     *)

E7 == 10000000

\* thousandths in a unit of degrees
DegUnit == 1000

\* x / 10000000 as a number of degrees (in thousandths; exact for the
\* coordinates the model draws, which are multiples of E7 \div DegUnit)
Degrees(x) == x \div (E7 \div DegUnit)

\* Point(x, y)
Point(x, y) == <<x, y>>

\* vertex i of a ring and the vertex after it (Polygon(ext) closes the ring)
Vertex(ring, i) == ring[i]

NextVertex(ring, i) == ring[(i % Len(ring)) + 1]

\* twice the signed area of the triangle a, b, p
Cross(a, b, p) == (b[1] - a[1]) * (p[2] - a[2]) - (b[2] - a[2]) * (p[1] - a[1])

Min(a, b) == IF a < b THEN a ELSE b

Max(a, b) == IF a < b THEN b ELSE a

\* p lies on the edge from a to b
OnEdge(a, b, p) ==
    /\ Cross(a, b, p) = 0
    /\ Min(a[1], b[1]) <= p[1] /\ p[1] <= Max(a[1], b[1])
    /\ Min(a[2], b[2]) <= p[2] /\ p[2] <= Max(a[2], b[2])

\* the ray from p towards +x crosses the edge from a to b
RayCrosses(a, b, p) ==
    /\ (a[2] > p[2]) # (b[2] > p[2])
    /\ LET dy == b[2] - a[2]
           lhs == (p[1] - a[1]) * dy
           rhs == (b[1] - a[1]) * (p[2] - a[2])
       IN  IF dy > 0 THEN lhs < rhs ELSE lhs > rhs

\* polygon.contains(point) of shapely for a simple ring: the point is in the
\* interior of the polygon; a point of the boundary is not contained
contains(ring, p) ==
    LET n == Len(ring)
    IN  /\ n >= 3
        /\ \A i \in 1..n : ~OnEdge(Vertex(ring, i), NextVertex(ring, i), p)
        /\ Cardinality({i \in 1..n :
               RayCrosses(Vertex(ring, i), NextVertex(ring, i), p)}) % 2 = 1

\* check_point building Point(lat, lon) from its parameters
check_point_swapped(ring, lon, lat) ==
    contains(ring, Point(Degrees(lat), Degrees(lon)))

\* check_point(polygon, lon, lat); the caller passes latitudeE7 as lon and
\* longitudeE7 as lat
check_point(ring, lon, lat) == contains(ring, Point(Degrees(lon), Degrees(lat)))

\* lines 118-122: the rectangle of two points (bottom left, top right)
Rectangle(pts) ==
    LET bottom_lx == pts[1]
        top_rx == pts[2]
    IN  << <<bottom_lx[1], bottom_lx[2]>>, <<bottom_lx[1], top_rx[2]>>,
           <<top_rx[1], top_rx[2]>>, <<top_rx[1], bottom_lx[2]>> >>

----------------------------------------------------------------------------
(* The Haversine distance, in fixed-point arithmetic.  Angles in radians   *)
(* and the values of sin, cos and sqrt are numbers of ten-thousandths; the *)
(* haversine a, a sum of squares, keeps twice the digits (it is a number   *)
(* of 1 / Unit^2).  The series are cut after four terms.  For the          *)
(* coordinates the model draws (0 to 30 degrees) the distance is within    *)
(* 4 km of the floating-point one below 100 km and within 1% above; the    *)
(* records drawn are never between 15 and 50 km apart.                     *)

\* ten-thousandths in a unit
Unit == 10000

\* math.pi
Pi == 31416

\* a / b rounded towards zero, b > 0
Div(a, b) == IF a < 0 THEN -((-a) \div b) ELSE a \div b

\* the product of two fixed-point numbers
Mul(a, b) == Div(a * b, Unit)

\* deg * (math.pi / 180), deg in thousandths of a degree
deg2rad(deg) == Div(deg * Pi, 180 * DegUnit)

\* math.sin(x)
sin(x) ==
    LET a == Abs(x)
        x2 == Mul(a, a)
        x3 == Mul(x2, a)
        x5 == Mul(x3, x2)
        x7 == Mul(x5, x2)
        s == a - x3 \div 6 + x5 \div 120 - x7 \div 5040
    IN  IF x < 0 THEN -s ELSE s

\* math.cos(x)
cos(x) ==
    LET x2 == Mul(x, x)
        x4 == Mul(x2, x2)
        x6 == Mul(x4, x2)
    IN  Unit - x2 \div 2 + x4 \div 24 - x6 \div 720

\* the largest r in lo..hi with r * r <= n
RECURSIVE Root(_, _, _)
Root(n, lo, hi) ==
    IF lo >= hi THEN lo
    ELSE LET mid == (lo + hi + 1) \div 2
         IN  IF mid * mid <= n THEN Root(n, mid, hi) ELSE Root(n, lo, mid - 1)

\* math.sqrt(x) of an x in 0..1 given with twice the digits
sqrt(x) == Root(x, 0, Unit)

\* the arc tangent of t in 0..1
atan(t) ==
    LET t2 == Mul(t, t)
        t3 == Mul(t2, t)
        t5 == Mul(t3, t2)
        t7 == Mul(t5, t2)
    IN  t - t3 \div 3 + t5 \div 5 - t7 \div 7

\* math.atan2(y, x) for y >= 0 and x >= 0
atan2(y, x) ==
    IF y = 0 THEN 0
    ELSE IF y <= x THEN atan((y * Unit) \div x)
    ELSE Pi \div 2 - atan((x * Unit) \div y)

\* Radius of the earth in km
R == 6371

\* the distance in metres; the arguments are degrees in thousandths
getDistanceFromLatLonInKm(lat1, lon1, lat2, lon2) ==
    LET dlat == deg2rad(lat2 - lat1)
        dlon == deg2rad(lon2 - lon1)
        a == sin(Div(dlat, 2)) * sin(Div(dlat, 2))
             + Mul(Mul(cos(deg2rad(lat1)), cos(deg2rad(lat2))),
                   sin(Div(dlon, 2))) * sin(Div(dlon, 2))
        c == 2 * atan2(sqrt(a), sqrt(Unit * Unit - a))
    IN  (R * c) \div 10

----------------------------------------------------------------------------
(* The steps of main().                                                    *)

\* sys.exit(value): None is success, an integer is the status itself
SysExit(value) == IF value = None THEN 0 ELSE value[1]

\* `return` (main() hands None to sys.exit)
Return == pc' = "done" /\ exitCode' = Some(SysExit(None))

\* arg_parser.error(message): the usage and the message on stderr, then
\* SystemExit(2)
ArgError(message) ==
    /\ stderr' = Append(stderr, message)
    /\ pc' = "done"
    /\ exitCode' = Some(SysExit(Some(2)))

\* an exception nothing catches: the traceback on stderr, status 1
Raise(exception) ==
    /\ stderr' = Append(stderr, exception)
    /\ pc' = "done"
    /\ exitCode' = Some(1)

print(message) == stdout' = Append(stdout, message)

\* lines 76-77
ResolveOutput ==
    /\ pc = "start"
    /\ args' = IF NoOutput(args.output)
               THEN [args EXCEPT !.output =
                        Some(DefaultOutput(args.input, args.format))]
               ELSE args
    /\ pc' = "check_paths"
    /\ UNCHANGED <<env, data, items, polygon, f_in, f_out, out, stdout, stderr,
                   idx, lastloc, exitCode>>

\* lines 79-81
CheckPaths ==
    /\ pc = "check_paths"
    /\ IF args.input = args.output[1]
       THEN ArgError("Input and output have to be different files")
       ELSE pc' = "check_polygon" /\ UNCHANGED <<stderr, exitCode>>
    /\ UNCHANGED <<args, env, data, items, polygon, f_in, f_out, out, stdout,
                   idx, lastloc>>

\* lines 83-85
CheckPolygon ==
    /\ pc = "check_polygon"
    /\ IF TooFewPoints(args.polygon)
       THEN ArgError("Polygon needs at least 2 points")
       ELSE pc' = "read_input" /\ UNCHANGED <<stderr, exitCode>>
    /\ UNCHANGED <<args, env, data, items, polygon, f_in, f_out, out, stdout,
                   idx, lastloc>>

\* lines 87-91: open(args.input).read(); the file object is referenced by
\* nothing once read() returns, and the interpreter closes it at once
ReadInput ==
    /\ pc = "read_input"
    /\ IF env.readable
       THEN /\ f_in' = "closed"
            /\ pc' = "decode"
            /\ UNCHANGED <<stdout, exitCode>>
       ELSE /\ print("Error opening input file")
            /\ Return
            /\ UNCHANGED f_in
    /\ UNCHANGED <<args, env, data, items, polygon, f_out, out, stderr, idx,
                   lastloc>>

\* lines 93-97
DecodeJson ==
    /\ pc = "decode"
    /\ IF env.json = "garbage"
       THEN /\ print("Error decoding json")
            /\ Return
            /\ UNCHANGED data
       ELSE /\ data' = Some([hasLocations |-> env.json = "ok",
                             locations |-> env.locations])
            /\ pc' = "open_output"
            /\ UNCHANGED <<stdout, exitCode>>
    /\ UNCHANGED <<args, env, items, polygon, f_in, f_out, out, stderr, idx,
                   lastloc>>

\* the condition of line 99 without its length test
HasData_key_only(doc) == doc.hasLocations

\* the condition of line 99
HasData(doc) == doc.hasLocations /\ Len(doc.locations) > 0

\* lines 99-106 and 259-261
OpenOutput ==
    /\ pc = "open_output"
    /\ IF HasData(data[1])
       THEN IF env.writable
            THEN /\ f_out' = "open"
                 /\ items' = data[1].locations
                 /\ pc' = "date_filter"
                 /\ UNCHANGED <<stdout, exitCode>>
            ELSE /\ print("Error creating output file for writing")
                 /\ Return
                 /\ UNCHANGED <<f_out, items>>
       ELSE /\ print("No data found in json")
            /\ Return
            /\ UNCHANGED <<f_out, items>>
    /\ UNCHANGED <<args, env, data, polygon, f_in, out, stderr, idx, lastloc>>

\* the list comprehension of line 109
DateFiltered(its, startdate, enddate, utcoffset) ==
    SelectSeq(its, LAMBDA item :
        dateCheck(item.timestampMs, startdate, enddate, utcoffset))

\* lines 108-109
DateFilter ==
    /\ pc = "date_filter"
    /\ items' = IF args.startdate # None \/ args.enddate # None
                THEN DateFiltered(items, args.startdate, args.enddate,
                                  env.utcoffset)
                ELSE items
    /\ pc' = "chronological"
    /\ UNCHANGED <<args, env, data, polygon, f_in, f_out, out, stdout, stderr,
                   idx, lastloc, exitCode>>

\* line 112 sorting the document's list, as the comment of line 224 does
SortedItems_document(its, doc) == sorted(doc.locations)

\* line 112: the list that is sorted is items, not the document's list
SortedItems(its, doc) == sorted(its)

\* lines 111-112
Chronological ==
    /\ pc = "chronological"
    /\ items' = IF args.chronological THEN SortedItems(items, data[1]) ELSE items
    /\ pc' = "polygon"
    /\ UNCHANGED <<args, env, data, polygon, f_in, f_out, out, stdout, stderr,
                   idx, lastloc, exitCode>>

HasKey(item, k) == k \in DOMAIN item

\* the list comprehension of line 129
PolygonFiltered(its, ring) ==
    SelectSeq(its, LAMBDA item :
        check_point(ring, item.latitudeE7, item.longitudeE7))

\* lines 114-129; each element of args.polygon is a tuple of two floats,
\* which has no split(): line 125 raises AttributeError
PolygonFilter ==
    /\ pc = "polygon"
    /\ IF ~PolygonGiven(args.polygon)
       THEN /\ pc' = "render_header"
            /\ UNCHANGED <<items, polygon, stdout, stderr, exitCode>>
       ELSE IF Len(args.polygon.pts) # 2
       THEN /\ Raise("AttributeError")
            /\ UNCHANGED <<items, polygon, stdout>>
       ELSE LET ext == Rectangle(args.polygon.pts)
            IN  /\ print("Polygon created")
                /\ polygon' = Some(ext)
                /\ IF \E i \in 1..Len(items) :
                          ~HasKey(items[i], "latitudeE7")
                   THEN /\ Raise("KeyError")
                        /\ UNCHANGED items
                   ELSE /\ items' = PolygonFiltered(items, ext)
                        /\ pc' = "render_header"
                        /\ UNCHANGED <<stderr, exitCode>>
    /\ UNCHANGED <<args, env, data, f_in, f_out, out, idx, lastloc>>

----------------------------------------------------------------------------
(* The renderers, lines 131-255.                                           *)

Token(tag, i) == [tag |-> tag, idx |-> i]

\* what each format writes before its loop
Header(format) ==
    CASE format = "json" -> <<Token("{locations:[", 0)>>
      [] format = "js" -> <<Token("window.variable =", 0), Token("{locations:[", 0)>>
      [] format = "csv" -> <<Token("Time,Latitude,Longitude", 0)>>
      [] format = "kml" -> <<Token("<kml>", 0)>>
      [] format = "gpx" -> <<Token("<gpx>", 0)>>
      [] format = "gpxtracks" ->
            <<Token("<gpx>", 0), Token("<trk>", 0), Token("<trkseg>", 0)>>

\* what each format writes after its loop
Footer(format) ==
    CASE format = "json" -> <<Token("]}", 0)>>
      [] format = "js" -> <<Token("]}", 0), Token(";", 0)>>
      [] format = "csv" -> <<>>
      [] format = "kml" -> <<Token("</kml>", 0)>>
      [] format = "gpx" -> <<Token("</gpx>", 0)>>
      [] format = "gpxtracks" ->
            <<Token("</trkseg>", 0), Token("</trk>", 0), Token("</gpx>", 0)>>

\* the thresholds of line 232
MaxMinutes == 10

MaxKm == 40

\* line 227: abs((int(...) - int(...)) / 1000 / 60), a fraction of minutes
\* (`/` is the true division)
timedelta(item, last) ==
    [num |-> Abs(int(item.timestampMs) - int(last.timestampMs)),
     den |-> 1000 * 60]

\* lines 228-231, in metres
distancedelta(item, last) ==
    getDistanceFromLatLonInKm(Degrees(item.latitudeE7), Degrees(item.longitudeE7),
                              Degrees(last.latitudeE7), Degrees(last.longitudeE7))

\* the condition of line 232 with `and`
StartsNewTrack_both(item, last) ==
    /\ timedelta(item, last).num > MaxMinutes * timedelta(item, last).den
    /\ distancedelta(item, last) > MaxKm * 1000

\* the condition of line 232
StartsNewTrack(item, last) ==
    \/ timedelta(item, last).num > MaxMinutes * timedelta(item, last).den
    \/ distancedelta(item, last) > MaxKm * 1000

\* lines 234-237
NewTrack == <<Token("</trkseg>", 0), Token("</trk>", 0), Token("<trk>", 0),
              Token("<trkseg>", 0)>>

\* what the loop writes for record i of its
ItemTokens(format, its, i, last) ==
    CASE format \in {"json", "js"} ->
            (IF i = 1 THEN <<>> ELSE <<Token(",", 0)>>) \o <<Token("record", i)>>
      [] format = "csv" -> <<Token("row", i)>>
      [] format = "kml" -> <<Token("<Placemark>", i)>>
      [] format = "gpx" -> <<Token("<wpt>", i)>>
      [] format = "gpxtracks" ->
            (IF last # None /\ StartsNewTrack(its[i], last[1])
             THEN NewTrack ELSE <<>>) \o <<Token("<trkpt>", i)>>

\* what the loop has written for record i when item["latitudeE7"] raises
\* KeyError: json, js, csv and kml have written the timestamp by then, gpx
\* and gpxtracks read the latitude first
PartialTokens(format, i) ==
    CASE format \in {"json", "js"} ->
            (IF i = 1 THEN <<>> ELSE <<Token(",", 0)>>) \o <<Token("partial", i)>>
      [] format \in {"csv", "kml"} -> <<Token("partial", i)>>
      [] format \in {"gpx", "gpxtracks"} -> <<>>

RenderHeader ==
    /\ pc = "render_header"
    /\ out' = out \o Header(args.format)
    /\ idx' = 1
    /\ lastloc' = None
    /\ pc' = "render_items"
    /\ UNCHANGED <<args, env, data, items, polygon, f_in, f_out, stdout,
                   stderr, exitCode>>

\* one round of `for item in items`
RenderItem ==
    /\ pc = "render_items"
    /\ idx <= Len(items)
    /\ IF HasKey(items[idx], "latitudeE7")
       THEN /\ out' = out \o ItemTokens(args.format, items, idx, lastloc)
            /\ lastloc' = IF args.format = "gpxtracks"
                          THEN Some(items[idx]) ELSE lastloc
            /\ idx' = idx + 1
            /\ UNCHANGED <<pc, stderr, exitCode>>
       ELSE /\ out' = out \o PartialTokens(args.format, idx)
            /\ Raise("KeyError")
            /\ UNCHANGED <<idx, lastloc>>
    /\ UNCHANGED <<args, env, data, items, polygon, f_in, f_out, stdout>>

RenderFooter ==
    /\ pc = "render_items"
    /\ idx > Len(items)
    /\ out' = out \o Footer(args.format)
    /\ pc' = "close"
    /\ UNCHANGED <<args, env, data, items, polygon, f_in, f_out, stdout,
                   stderr, idx, lastloc, exitCode>>

\* line 257, and the end of main()
CloseOutput ==
    /\ pc = "close"
    /\ f_out' = "closed"
    /\ Return
    /\ UNCHANGED <<args, env, data, items, polygon, f_in, out, stdout, stderr,
                   idx, lastloc>>

Next ==
    \/ ResolveOutput
    \/ CheckPaths
    \/ CheckPolygon
    \/ ReadInput
    \/ DecodeJson
    \/ OpenOutput
    \/ DateFilter
    \/ Chronological
    \/ PolygonFilter
    \/ RenderHeader
    \/ RenderItem
    \/ RenderFooter
    \/ CloseOutput

----------------------------------------------------------------------------
(* The runs checked: the command lines, the files and the record lists.    *)

Record(ts, lat, lon) ==
    [timestampMs |-> str(ts), latitudeE7 |-> lat, longitudeE7 |-> lon]

\* a record of the export that lacks "latitudeE7"
NoLatitude(ts, lon) == [timestampMs |-> str(ts), longitudeE7 |-> lon]

\* d degrees and m thousandths as an E7 coordinate
Coord(d, m) == d * E7 + m * (E7 \div DegUnit)

\* the lists of at most MaxLen records of S
Lists(S) == UNION {[1..n -> S] : n \in 0..MaxLen}

\* the milliseconds of a day, and midnight of day d (valid_date)
Day == 24 * 60 * 60 * 1000

valid_date(d) == d * Day

\* a point of --polygon (valid_polygon), in thousandths of a degree
valid_polygon(lat, lon) == <<lat * DegUnit, lon * DegUnit>>

NoPolygon == [isNone |-> TRUE, pts |-> <<>>]

Points(pts) == [isNone |-> FALSE, pts |-> pts]

Square == Points(<<valid_polygon(10, 10), valid_polygon(20, 20)>>)

Oblong == Points(<<valid_polygon(10, 12), valid_polygon(14, 20)>>)

Triangle ==
    Points(<<valid_polygon(10, 10), valid_polygon(10, 30), valid_polygon(30, 10)>>)

Formats == {"kml", "json", "csv", "js", "gpx", "gpxtracks"}

\* the files a run meets: no input file, an input that is no JSON, a document
\* without "locations", or a document with one of the lists of L
Files(L, utcoffset) ==
    {[readable |-> FALSE, json |-> "garbage", locations |-> <<>>,
      writable |-> TRUE, utcoffset |-> utcoffset],
     [readable |-> TRUE, json |-> "garbage", locations |-> <<>>,
      writable |-> TRUE, utcoffset |-> utcoffset],
     [readable |-> TRUE, json |-> "nokey", locations |-> <<>>,
      writable |-> TRUE, utcoffset |-> utcoffset]}
    \cup {[readable |-> TRUE, json |-> "ok", locations |-> l,
           writable |-> w, utcoffset |-> utcoffset] : l \in L, w \in BOOLEAN}

\* a readable document with one of the lists of L and a writable output
GoodFiles(L, utcoffset) ==
    {[readable |-> TRUE, json |-> "ok", locations |-> l,
      writable |-> TRUE, utcoffset |-> utcoffset] : l \in L}

Inside == Record(2 * Day, Coord(15, 0), Coord(15, 0))

\* command lines and files: paths, point counts, missing and broken files
InitArguments ==
    /\ args \in [input : {<<"a", "json">>, <<"a", "kml">>, <<"kml">>, <<"", "kml">>},
                 output : {None, Some(<<"">>), Some(<<"a", "json">>),
                           Some(<<"b", "kml">>)},
                 format : {"kml", "json"},
                 startdate : {None},
                 enddate : {None},
                 chronological : {FALSE},
                 polygon : {NoPolygon, Points(<<>>),
                            Points(<<valid_polygon(10, 10)>>), Square, Triangle}]
    /\ env \in Files({<<>>, <<Inside>>}, 0)

\* every format, with and without the filters, over records with and
\* without a latitude
InitFormats ==
    /\ args \in [input : {<<"history", "data">>},
                 output : {None},
                 format : Formats,
                 startdate : {None, Some(valid_date(1))},
                 enddate : {None},
                 chronological : BOOLEAN,
                 polygon : {NoPolygon, Square}]
    /\ env \in Files(Lists({Inside, NoLatitude(Day, Coord(15, 0))}), 0)

\* the records around the two midnights, for a clock at utcoffset from UTC
DateRecords(utcoffset) ==
    {Record(Day - utcoffset - 1000, Coord(15, 0), Coord(15, 0)),
     Record(Day - utcoffset, Coord(15, 0), Coord(15, 0)),
     Record(Day - utcoffset, Coord(25, 0), Coord(25, 0)),
     Record(2 * Day - utcoffset, Coord(15, 0), Coord(15, 0)),
     Record(2 * Day - utcoffset + 1, Coord(15, 0), Coord(15, 0))}

\* date bounds and the sort
InitDates ==
    \E utcoffset \in {0, 60 * 60 * 1000} :
        /\ args \in [input : {<<"history", "data">>},
                     output : {None},
                     format : {"json"},
                     startdate : {None, Some(valid_date(1))},
                     enddate : {None, Some(valid_date(2))},
                     chronological : BOOLEAN,
                     polygon : {NoPolygon}]
        /\ env \in GoodFiles(Lists(DateRecords(utcoffset)), utcoffset)

PolygonRecords ==
    {Record(2 * Day, Coord(15, 0), Coord(15, 0)),
     Record(Day, Coord(25, 0), Coord(25, 0)),
     Record(Day - 1000, Coord(12, 0), Coord(18, 0)),
     Record(Day, Coord(18, 0), Coord(13, 0)),
     Record(2 * Day + 1, Coord(10, 0), Coord(15, 0))}

\* polygons, together with the date bounds and the sort
InitPolygons ==
    /\ args \in [input : {<<"history", "data">>},
                 output : {None},
                 format : {"json"},
                 startdate : {None, Some(valid_date(1))},
                 enddate : {None, Some(valid_date(2))},
                 chronological : BOOLEAN,
                 polygon : {Square, Oblong, Triangle}]
    /\ env \in GoodFiles(Lists(PolygonRecords), 0)

Minute == 60 * 1000

TrackRecords ==
    {Record(0, Coord(10, 0), Coord(10, 0)),
     Record(5 * Minute, Coord(10, 50), Coord(10, 0)),
     Record(15 * Minute, Coord(10, 100), Coord(10, 0)),
     Record(20 * Minute, Coord(10, 100), Coord(10, 0)),
     Record(25 * Minute, Coord(10, 100), Coord(10, 500))}

\* gpxtracks over records a few minutes and a few kilometres apart
InitTracks ==
    /\ args \in [input : {<<"history", "data">>},
                 output : {None},
                 format : {"gpxtracks"},
                 startdate : {None},
                 enddate : {None},
                 chronological : BOOLEAN,
                 polygon : {NoPolygon}]
    /\ env \in GoodFiles(Lists(TrackRecords), 0)

\* main() has not started: nothing is open, nothing is written
Begin ==
    /\ pc = "start"
    /\ data = None
    /\ items = <<>>
    /\ polygon = None
    /\ f_in = "unopened"
    /\ f_out = "unopened"
    /\ out = <<>>
    /\ stdout = <<>>
    /\ stderr = <<>>
    /\ idx = 0
    /\ lastloc = None
    /\ exitCode = None

Init ==
    /\ \/ InitArguments
       \/ InitFormats
       \/ InitDates
       \/ InitPolygons
       \/ InitTracks
    /\ Begin

Spec == Init /\ [][Next]_vars

\* the runs of every format alone, none of which takes line 125
InitRecords == InitFormats /\ Begin

SpecRecords == InitRecords /\ [][Next]_vars

----------------------------------------------------------------------------
(* The properties.                                                         *)

Finished == pc = "done"

\* the document's list, date-filtered as line 109 does
AfterDateFilter ==
    IF args.startdate # None \/ args.enddate # None
    THEN DateFiltered(data[1].locations, args.startdate, args.enddate,
                      env.utcoffset)
    ELSE data[1].locations

\* the list the polygon filter is given
BeforePolygon ==
    IF args.chronological THEN sorted(AfterDateFilter) ELSE AfterDateFilter

\* C1: a run in which opening the input file, decoding the JSON or creating
\* the output file fails prints its message and ends with a status that is
\* not the success status.
C1_FileErrorsExitNonZero ==
    /\ (Finished /\ stderr = <<>> /\ ~env.readable)
          => /\ stdout = <<"Error opening input file">>
             /\ exitCode # Some(0)
    /\ (Finished /\ stderr = <<>> /\ env.readable /\ env.json = "garbage")
          => /\ stdout = <<"Error decoding json">>
             /\ exitCode # Some(0)
    /\ (Finished /\ stderr = <<>> /\ data # None /\ HasData(data[1])
          /\ ~env.writable)
          => /\ stdout = <<"Error creating output file for writing">>
             /\ exitCode # Some(0)

\* C2: with three or more points the points themselves are the ring, the run
\* completes, and the records rendered are those of the list the filter was
\* given that the ring contains, in their order.
C2_PolygonOfPointsFilters ==
    (Finished /\ f_out # "unopened" /\ PolygonGiven(args.polygon)
       /\ Len(args.polygon.pts) >= 3)
      => /\ exitCode = Some(0)
         /\ polygon = Some(args.polygon.pts)
         /\ items = SelectSeq(BeforePolygon, LAMBDA item :
               contains(args.polygon.pts,
                        Point(Degrees(item.latitudeE7),
                              Degrees(item.longitudeE7))))

\* x placed behind every element of s whose timestamp, as a number, is not
\* greater
RECURSIVE InsertByTime(_, _)
InsertByTime(x, s) ==
    IF Len(s) = 0 THEN <<x>>
    ELSE IF int(x.timestampMs) < int(s[1].timestampMs) THEN <<x>> \o s
    ELSE <<s[1]>> \o InsertByTime(x, Tail(s))

\* s in non-decreasing order of the numeric timestamps, equal timestamps in
\* the order of s
RECURSIVE ByTime(_)
ByTime(s) == IF Len(s) = 0 THEN <<>> ELSE InsertByTime(s[Len(s)], ByTime(Front(s)))

\* C3: with --chronological the records are in non-decreasing order of their
\* numeric timestamps, equal timestamps in input order; without it they keep
\* their input order.
C3_ChronologicalIsNumeric ==
    pc = "polygon" =>
        items = IF args.chronological THEN ByTime(AfterDateFilter)
                ELSE AfterDateFilter

\* C4: when main() is left, no file handle is open.
C4_HandlesClosedAtExit ==
    Finished => f_in # "open" /\ f_out # "open"

\* no file has been opened, and a finished run reported an argument error
RejectedBeforeFiles ==
    /\ f_in = "unopened"
    /\ f_out = "unopened"
    /\ Finished => (stderr # <<>> /\ exitCode \notin {None, Some(0)})

\* C5: --polygon with fewer than 2 points, or an input path equal to the
\* resolved output path, is rejected before any file is opened.
C5_ArgumentsRejectedBeforeFiles ==
    /\ (~args.polygon.isNone /\ Len(args.polygon.pts) < 2)
          => RejectedBeforeFiles
    /\ (pc # "start" /\ args.input = args.output[1]) => RejectedBeforeFiles

\* the gpxtracks document: <gpx>, one or more blocks
\* <trk> <trkseg> <trkpt>* </trkseg> </trk>, then </gpx>
RECURSIVE Blocks(_, _)
Blocks(s, state) ==
    IF Len(s) = 0 THEN state = "end"
    ELSE LET tag == s[1].tag
             to == CASE state = "begin" /\ tag = "<gpx>" -> "between"
                     [] state = "between" /\ tag = "<trk>" -> "trk"
                     [] state = "trk" /\ tag = "<trkseg>" -> "trkseg"
                     [] state = "trkseg" /\ tag = "<trkpt>" -> "trkseg"
                     [] state = "trkseg" /\ tag = "</trkseg>" -> "closing"
                     [] state = "closing" /\ tag = "</trk>" -> "between"
                     [] state = "between" /\ tag = "</gpx>" -> "end"
                     [] OTHER -> "error"
         IN  to # "error" /\ Blocks(Tail(s), to)

\* the time gap exceeds 10 minutes or the distance exceeds 40 km
FarApart(a, b) ==
    \/ Abs(int(b.timestampMs) - int(a.timestampMs)) > 10 * Minute
    \/ getDistanceFromLatLonInKm(Degrees(a.latitudeE7), Degrees(a.longitudeE7),
                                 Degrees(b.latitudeE7), Degrees(b.longitudeE7))
          > 40 * 1000

\* the positions of out that hold tag
Positions(tag) == {p \in DOMAIN out : out[p].tag = tag}

TracksRendered ==
    /\ args.format = "gpxtracks"
    /\ pc = "close" \/ (Finished /\ f_out = "closed")

\* C6: in gpxtracks output a new <trk>/<trkseg> block starts before record i
\* exactly when record i is more than 10 minutes or more than 40 km from
\* record i-1; the blocks number one more than those pairs, each is closed
\* before the next opens and before </gpx>, and each <trkpt> is inside one.
C6_TrackSegmentation ==
    TracksRendered =>
        /\ Blocks(out, "begin")
        /\ Cardinality(Positions("<trk>"))
             = 1 + Cardinality({i \in 2..Len(items) : FarApart(items[i - 1], items[i])})
        /\ Cardinality(Positions("<trkpt>")) = Len(items)
        /\ \A i \in 1..Len(items) :
              \E p \in Positions("<trkpt>") :
                 /\ out[p].idx = i
                 /\ Cardinality({q \in Positions("<trkpt>") : q < p}) = i - 1
                 /\ i > 1 => ((out[p - 1].tag = "<trkseg>")
                                <=> FarApart(items[i - 1], items[i]))

\* C6: the three points 5 minutes / 5 km and then 15 minutes / 5 km apart
\* have been rendered as two blocks.
C6_Witness ==
    /\ TracksRendered
    /\ Finished
    /\ items = <<Record(0, Coord(10, 0), Coord(10, 0)),
                 Record(5 * Minute, Coord(10, 50), Coord(10, 0)),
                 Record(20 * Minute, Coord(10, 100), Coord(10, 0))>>
    /\ Cardinality(Positions("<trk>")) = 2
    /\ out[6].tag = "</trkseg>"

NoLocations == data # None /\ (~data[1].hasLocations \/ data[1].locations = <<>>)

\* C7: a document without "locations", or with an empty list, ends the run
\* with the no-data message and without an error, and the output file is
\* never opened.
C7_NoDataNoOutput ==
    NoLocations =>
        /\ f_out = "unopened"
        /\ out = <<>>
        /\ Finished => (stdout = <<"No data found in json">> /\ exitCode = Some(0))

\* C7: a run over an empty list has ended, with gpxtracks and the sort asked
\* for.
C7_Witness ==
    /\ Finished
    /\ data # None /\ data[1].hasLocations /\ data[1].locations = <<>>
    /\ args.format = "gpxtracks" /\ args.chronological
    /\ args.startdate # None /\ PolygonGiven(args.polygon)
    /\ stdout = <<"No data found in json">>

\* the local time of a record, in milliseconds
LocalTime(item) == int(item.timestampMs) + env.utcoffset

\* the record is not before the start date nor after the end date
InRange(item) ==
    /\ args.startdate # None => LocalTime(item) >= args.startdate[1]
    /\ args.enddate # None => LocalTime(item) <= args.enddate[1]

\* C8: the date filter keeps exactly the records whose local time is at or
\* after midnight of the start date (when given) and at or before midnight
\* of the end date (when given), in their order.
C8_DateFilterInclusive ==
    pc = "chronological" => items = SelectSeq(data[1].locations, InRange)

\* C8: of a record one second before the start midnight, one at it and one
\* at the end midnight, the filter has kept the last two.
C8_Witness ==
    /\ pc = "chronological"
    /\ env.utcoffset # 0
    /\ args.startdate = Some(valid_date(1)) /\ args.enddate = Some(valid_date(2))
    /\ Len(data[1].locations) = 3
    /\ LocalTime(data[1].locations[1]) = valid_date(1) - 1000
    /\ LocalTime(data[1].locations[2]) = valid_date(1)
    /\ LocalTime(data[1].locations[3]) = valid_date(2)
    /\ items = SubSeq(data[1].locations, 2, 3)

\* x is strictly between a and b, x an E7 coordinate, a and b degrees
Between(x, a, b) ==
    /\ Min(a, b) * (E7 \div DegUnit) < x
    /\ x < Max(a, b) * (E7 \div DegUnit)

\* the latitude of the record is strictly between the latitudes of the two
\* points, and its longitude between their longitudes
InRectangle(item) ==
    LET pts == args.polygon.pts
    IN  /\ Between(item.latitudeE7, pts[1][1], pts[2][1])
        /\ Between(item.longitudeE7, pts[1][2], pts[2][2])

\* C9: with two points the ring is the four corners in the stated order, and
\* a record is kept exactly when its latitude is strictly between the two
\* latitudes and its longitude strictly between the two longitudes.
C9_RectangleFilters ==
    (pc = "render_header" /\ PolygonGiven(args.polygon)
       /\ Len(args.polygon.pts) = 2)
      => LET bl == args.polygon.pts[1]
             tr == args.polygon.pts[2]
         IN  /\ polygon = Some(<< <<bl[1], bl[2]>>, <<bl[1], tr[2]>>,
                                  <<tr[1], tr[2]>>, <<tr[1], bl[2]>> >>)
             /\ items = SelectSeq(BeforePolygon, InRectangle)

\* C9: for the rectangle (10,10)-(20,20) the record at (15,15) has been kept
\* and the one at (25,25) dropped.
C9_Witness ==
    /\ pc = "render_header"
    /\ args.polygon = Square
    /\ Len(data[1].locations) = 2
    /\ data[1].locations[1].latitudeE7 = Coord(15, 0)
    /\ data[1].locations[1].longitudeE7 = Coord(15, 0)
    /\ data[1].locations[2].latitudeE7 = Coord(25, 0)
    /\ data[1].locations[2].longitudeE7 = Coord(25, 0)
    /\ items = SubSeq(data[1].locations, 1, 1)

\* the document's list after both filters
Filtered ==
    LET dated == SelectSeq(data[1].locations, LAMBDA item :
                    (args.startdate # None \/ args.enddate # None)
                       => dateCheck(item.timestampMs, args.startdate,
                                    args.enddate, env.utcoffset))
    IN  IF PolygonGiven(args.polygon)
        THEN SelectSeq(dated, LAMBDA item :
                check_point(Rectangle(args.polygon.pts), item.latitudeE7,
                            item.longitudeE7))
        ELSE dated

====
